---- MODULE Spec2Model ----
(***************************************************************************)
(* Model of the winsen-co2-sensor driver (src/src/lib.rs): the 9-byte      *)
(* packet codec, the timeout-bounded polling loops of send_packet and      *)
(* receive_packet, the command layer and the probe retry policy.           *)
(*                                                                         *)
(* The serial transport and the monotonic counter are the environment:     *)
(* every transport call answers Ok, WouldBlock or Other(e), the bytes that *)
(* the transport will deliver are the sequence `input`, and the counter    *)
(* advances by the Tick action.  u8 arithmetic is done modulo 256; u32     *)
(* values are pairs <<hi, lo>> of 16-bit limbs so that the 32-bit          *)
(* wrap-around of the counter is kept exactly.                             *)
(***************************************************************************)
EXTENDS Integers, Sequences, FiniteSets, TLC

VARIABLES
    pc,         \* position of the driver: idle, send_enter, send, recv_enter, scan, fill, done
    op,         \* the public operation in progress
    command,    \* command byte of the current exchange
    payload,    \* request payload of the current exchange
    rlen,       \* response.len() of the current exchange
    attempt,    \* probe(): number of the exchange in progress (1..3)
    buffer,     \* the 9-byte buffer of send_packet / receive_packet
    i,          \* loop position in buffer (1-based)
    t0,         \* counter value sampled at entry of send_packet / receive_packet
    dt,         \* frequency / 10
    response,   \* the caller's response slice
    result,     \* value returned by the public operation
    serial,     \* transport: bytes it will deliver to read(), in order
    counter,    \* clock: current value of the monotonic counter (u32)
    frequency,  \* clock: frequency() (u32)
    \* history variables (observations of the run, never read by the driver)
    serial0,    \* the transport's input at construction
    elapsed,    \* ticks since t0 was sampled, as an unbounded natural
    outcomes,   \* results of the exchanges finished so far in this call
    written,    \* bytes the transport accepted in the current send_packet call
    lastCall,   \* the last transport call and its answer
    wbCount,    \* WouldBlock answers seen in this call (counted up to MaxWouldBlock)
    at,         \* position at which the operation returned
    fillWB,     \* TRUE once a read of this exchange's fill loop answered WouldBlock
    tries       \* transport calls made by the for-loop in progress

vars == <<pc, op, command, payload, rlen, attempt, buffer, i, t0, dt, response,
          result, serial, counter, frequency, serial0, elapsed, outcomes,
          written, lastCall, wbCount, at, fillWB, tries>>

----------------------------------------------------------------------------
(* Bounds of the model *)

MaxElapsed == 2      \* the clock is advanced at most this far past a sampled t0
MaxWouldBlock == 1   \* WouldBlock answers of one call that are told apart

----------------------------------------------------------------------------
(* u8 and u32 arithmetic *)

Limb == 65536

RECURSIVE SumBytes(_)
\* iter().fold(0u8, |sum, c| sum.wrapping_add(*c))
SumBytes(s) == IF s = <<>> THEN 0 ELSE (SumBytes(SubSeq(s, 1, Len(s) - 1)) + s[Len(s)]) % 256

\* checksum as the two's complement (negation) of the wrapping sum
checksum_Negate(bytes) == (256 - SumBytes(bytes)) % 256

\* fn checksum: bitwise NOT of the wrapping sum
checksum(bytes) == 255 - SumBytes(bytes)

\* u32::saturating_sub in place of wrapping_sub
saturating_sub(a, b) ==
    IF a[1] > b[1] \/ (a[1] = b[1] /\ a[2] >= b[2])
    THEN LET lo     == a[2] - b[2]
             borrow == IF lo < 0 THEN 1 ELSE 0
         IN  <<a[1] - b[1] - borrow, lo % Limb>>
    ELSE <<0, 0>>

\* u32::wrapping_sub on limb pairs
wrapping_sub(a, b) ==
    LET lo     == a[2] - b[2]
        borrow == IF lo < 0 THEN 1 ELSE 0
    IN  <<(a[1] - b[1] - borrow) % Limb, lo % Limb>>

\* a >= b on u32
GeqU32(a, b) == a[1] > b[1] \/ (a[1] = b[1] /\ a[2] >= b[2])

\* a deadline that is never shorter than one tick
Div10_AtLeastOne(f) ==
    IF f[1] = 0 /\ f[2] < 10 THEN <<0, 1>>
    ELSE <<f[1] \div 10, ((f[1] % 10) * Limb + f[2]) \div 10>>

\* u32 division by 10 (frequency() / 10)
Div10(f) == <<f[1] \div 10, ((f[1] % 10) * Limb + f[2]) \div 10>>

\* the counter one tick later (it wraps at 2^32)
NextTick(c) == IF c[2] + 1 < Limb THEN <<c[1], c[2] + 1>> ELSE <<(c[1] + 1) % Limb, 0>>

\* a small natural as u32
NatToU32(n) == <<n \div Limb, n % Limb>>

\* the deadline test written with `>` in place of `>=`
TimedOut_Strict(now, start, d) ==
    LET diff == wrapping_sub(now, start)
    IN  diff[1] > d[1] \/ (diff[1] = d[1] /\ diff[2] > d[2])

\* the deadline test of both polling loops
TimedOut(now, start, d) == GeqU32(wrapping_sub(now, start), d)

----------------------------------------------------------------------------
(* Values *)

Byte == 0 .. 255

\* errors the transport can raise (the type parameter E)
SerialErrors == {"E1", "E2"}

\* enum Error<E>; Bare(e) is a bare transport error E, as probe() returns it
Timeout == [kind |-> "Timeout", e |-> "-"]
Serial(e) == [kind |-> "Serial", e |-> e]
WrongChecksum == [kind |-> "WrongChecksum", e |-> "-"]
WrongPacketType == [kind |-> "WrongPacketType", e |-> "-"]
Bare(e) == [kind |-> "E", e |-> e]
NoError == [kind |-> "-", e |-> "-"]

\* Result values; val is a tuple of numbers (bool as <<1>> / <<0>>, () as <<>>)
Ok(v) == [tag |-> "Ok", val |-> v, err |-> NoError]
Err(e) == [tag |-> "Err", val |-> <<>>, err |-> e]
None == [tag |-> "None", val |-> <<>>, err |-> NoError]
True == <<1>>
False == <<0>>

Zeros(n) == [k \in 1 .. n |-> 0]

----------------------------------------------------------------------------
(* Packet codec *)

\* send_packet: the frame built for (command, payload); payload.len() <= 5
EncodeFrame(cmd, pl) ==
    LET head == <<255, 1, cmd>> \o pl \o Zeros(5 - Len(pl))
    IN  head \o <<checksum(head)>>

\* receive_packet with the packet type checked ahead of the checksum
ValidateFrame_TypeFirst(buf, cmd, n) ==
    IF buf[2] # cmd THEN Err(WrongPacketType)
    ELSE IF checksum(buf) # 0 THEN Err(WrongChecksum)
    ELSE Ok(SubSeq(buf, 3, 2 + n))

\* receive_packet copying the response from offset 3, where a request holds its payload
ValidateFrame_Offset3(buf, cmd, n) ==
    IF checksum(buf) # 0 THEN Err(WrongChecksum)
    ELSE IF buf[2] # cmd THEN Err(WrongPacketType)
    ELSE Ok(SubSeq(buf, 4, 3 + n))

\* receive_packet without the checksum verification
ValidateFrame_NoChecksum(buf, cmd, n) ==
    IF buf[2] # cmd THEN Err(WrongPacketType)
    ELSE Ok(SubSeq(buf, 3, 2 + n))

\* receive_packet: checks on the filled buffer and extraction of the response
ValidateFrame(buf, cmd, n) ==
    IF checksum(buf) # 0 THEN Err(WrongChecksum)
    ELSE IF buf[2] # cmd THEN Err(WrongPacketType)
    ELSE Ok(SubSeq(buf, 3, 2 + n))

\* u16 / u32 big-endian conversions of the typed operations
U16ToBe(n) == <<(n \div 256) % 256, n % 256>>
U16FromBe(b) == b[1] * 256 + b[2]
U32ToBe(n) == <<(n[1] \div 256) % 256, n[1] % 256, (n[2] \div 256) % 256, n[2] % 256>>
U32FromBe(b) == <<b[1] * 256 + b[2], b[3] * 256 + b[4]>>

----------------------------------------------------------------------------
(* The environment: what the sensor puts on the wire, and the clock *)

\* a response frame as the sensor sends it: marker, echoed command, 6 data bytes, checksum
ResponseFrame(cmd, data) ==
    LET head == <<255, cmd>> \o data
    IN  head \o <<checksum(head)>>

\* the same frame with its last byte off by one: the checksum test fails
Corrupted(frame) == [frame EXCEPT ![9] = (frame[9] + 1) % 256]

Good == ResponseFrame(134, <<2, 88, 0, 0, 0, 0>>)       \* 0x86, 600 ppm
GoodFF == ResponseFrame(134, <<255, 255, 0, 0, 0, 0>>)  \* 0x86, data holding 0xFF
OtherType == ResponseFrame(121, Zeros(6))               \* answer to 0x79
BadSum == Corrupted(Good)
BadSumFF == Corrupted(GoodFF)
Noise == <<62, 10>>                                     \* bootloader chatter without 0xFF
Stray == <<255, 65>>                                    \* chatter holding a stray 0xFF
Truncated == SubSeq(Good, 1, 4)

BadFrames == {BadSum, BadSumFF}

\* two corrupted frames, then a valid one
TwoBadThenGood == {a \o b \o Good : a \in BadFrames, b \in BadFrames}

\* the byte streams the transport is scripted with
Streams ==
    {<<>>, Good, Truncated, OtherType \o BadSum,
     Noise \o Good, Noise \o Stray \o Good,
     BadSum \o BadSumFF \o BadSum}
    \cup TwoBadThenGood

\* counter value at construction: two ticks before it wraps at 2^32
Starts == {<<Limb - 1, Limb - 2>>}

\* clock frequencies: dt = 0, 2
Frequencies == {<<0, 9>>, <<0, 25>>}

\* answers of a transport call
WouldBlock == [res |-> "WouldBlock", e |-> "-"]
Other(e) == [res |-> "Other", e |-> e]
Done == [res |-> "Ok", e |-> "-"]
Answers == {Done, WouldBlock} \cup {Other(e) : e \in SerialErrors}

Call(kind, answer) == [kind |-> kind, res |-> answer.res, e |-> answer.e]
NoCall == [kind |-> "none", res |-> "-", e |-> "-"]

----------------------------------------------------------------------------
(* Initial state: WinsenSensor::new(serial, counter) *)

Init ==
    /\ pc = "idle"
    /\ op = "-"
    /\ command = 0
    /\ payload = <<>>
    /\ rlen = 0
    /\ attempt = 0
    /\ buffer = Zeros(9)
    /\ i = 0
    /\ t0 = <<0, 0>>
    /\ dt = <<0, 0>>
    /\ response = <<>>
    /\ result = None
    /\ serial \in Streams
    /\ counter \in Starts
    /\ frequency \in Frequencies
    /\ serial0 = serial
    /\ elapsed = 0
    /\ outcomes = <<>>
    /\ written = <<>>
    /\ lastCall = NoCall
    /\ wbCount = 0
    /\ at = "-"
    /\ fillWB = FALSE
    /\ tries = 0

----------------------------------------------------------------------------
(* Callers of an exchange: probe() and the typed operations *)

\* probe() with the catch-all arm `Err(_) => {}` ahead of the Serial arm in the loop
ProbeStep_SwallowSerial(att, r) ==
    IF att <= 2
    THEN IF r.tag = "Ok" THEN [again |-> FALSE, result |-> Ok(True)]
         ELSE [again |-> TRUE, result |-> None]
    ELSE IF r.tag = "Ok" THEN [again |-> FALSE, result |-> Ok(True)]
         ELSE IF r.err.kind = "Serial" THEN [again |-> FALSE, result |-> Err(Bare(r.err.e))]
         ELSE [again |-> FALSE, result |-> Ok(False)]

\* probe() with `for _ in 0..1`
ProbeStep_OneRetry(att, r) ==
    IF att <= 1
    THEN IF r.tag = "Ok" THEN [again |-> FALSE, result |-> Ok(True)]
         ELSE IF r.err.kind = "Serial" THEN [again |-> FALSE, result |-> Err(Bare(r.err.e))]
         ELSE [again |-> TRUE, result |-> None]
    ELSE IF r.tag = "Ok" THEN [again |-> FALSE, result |-> Ok(True)]
         ELSE IF r.err.kind = "Serial" THEN [again |-> FALSE, result |-> Err(Bare(r.err.e))]
         ELSE [again |-> FALSE, result |-> Ok(False)]

\* probe() with `for _ in 0..3`
ProbeStep_ThreeRetries(att, r) ==
    IF att <= 3
    THEN IF r.tag = "Ok" THEN [again |-> FALSE, result |-> Ok(True)]
         ELSE IF r.err.kind = "Serial" THEN [again |-> FALSE, result |-> Err(Bare(r.err.e))]
         ELSE [again |-> TRUE, result |-> None]
    ELSE IF r.tag = "Ok" THEN [again |-> FALSE, result |-> Ok(True)]
         ELSE IF r.err.kind = "Serial" THEN [again |-> FALSE, result |-> Err(Bare(r.err.e))]
         ELSE [again |-> FALSE, result |-> Ok(False)]

\* probe(): what it does with the result r of exchange number att.
\* `for _ in 0..2` covers att = 1, 2; the final try is att = 3.
ProbeStep(att, r) ==
    IF att <= 2
    THEN IF r.tag = "Ok" THEN [again |-> FALSE, result |-> Ok(True)]
         ELSE IF r.err.kind = "Serial" THEN [again |-> FALSE, result |-> Err(Bare(r.err.e))]
         ELSE [again |-> TRUE, result |-> None]
    ELSE IF r.tag = "Ok" THEN [again |-> FALSE, result |-> Ok(True)]
         ELSE IF r.err.kind = "Serial" THEN [again |-> FALSE, result |-> Err(Bare(r.err.e))]
         ELSE [again |-> FALSE, result |-> Ok(False)]

\* the typed operations: `?` passes an error on, Ok is converted
TypedResult(o, r) ==
    IF r.tag = "Err" THEN r
    ELSE IF o = "read_co2_concentration" THEN Ok(<<U16FromBe(r.val)>>)
    ELSE IF o = "get_detection_range" THEN Ok(U32FromBe(r.val))
    ELSE IF o = "get_analog_bounds"
         THEN Ok(<<U16FromBe(SubSeq(r.val, 1, 2)), U16FromBe(SubSeq(r.val, 3, 4))>>)
    ELSE IF o = "get_firmware_version" THEN Ok(r.val)
    ELSE Ok(<<>>)

\* name of an exchange result in the history
Outcome(r) == IF r.tag = "Ok" THEN "Ok" ELSE r.err.kind

\* the driver stays inside the current exchange, at position p
Continue(p) ==
    /\ pc' = p
    /\ UNCHANGED <<attempt, result, outcomes, at>>

\* the exchange (send_packet, simple_command or command) returns r to its caller
Returns(r) ==
    /\ outcomes' = Append(outcomes, Outcome(r))
    /\ at' = pc
    /\ IF op = "probe"
       THEN LET step == ProbeStep(attempt, r)
            IN  IF step.again
                THEN pc' = "send_enter" /\ attempt' = attempt + 1 /\ result' = result
                ELSE pc' = "done" /\ attempt' = attempt /\ result' = step.result
       ELSE pc' = "done" /\ attempt' = attempt /\ result' = TypedResult(op, r)

\* a public operation is entered: it issues (cmd, pl) and expects n response bytes
StartCommand(o, cmd, pl, n) ==
    /\ pc = "idle"
    /\ op' = o
    /\ command' = cmd
    /\ payload' = pl
    /\ rlen' = n
    /\ response' = Zeros(n)
    /\ attempt' = IF o = "probe" THEN 1 ELSE 0
    /\ pc' = "send_enter"
    /\ UNCHANGED <<buffer, i, t0, dt, result, serial, counter, frequency, serial0,
                   elapsed, outcomes, written, lastCall, wbCount, at, fillWB, tries>>

\* arguments the typed operations are called with
Spans == {2000}
Ranges == {<<0, 5000>>}

probe == StartCommand("probe", 134, <<>>, 0)
read_co2_concentration == StartCommand("read_co2_concentration", 134, <<>>, 2)
set_automatic_baseline_correction ==
    \E enabled \in BOOLEAN :
        StartCommand("set_automatic_baseline_correction", 121,
                     <<IF enabled THEN 160 ELSE 0>>, 0)
calibrate_zero_point == StartCommand("calibrate_zero_point", 135, <<>>, 0)
calibrate_span_point ==
    \E span \in Spans : StartCommand("calibrate_span_point", 136, U16ToBe(span), 0)
set_detection_range ==
    \E range \in Ranges :
        StartCommand("set_detection_range", 153, <<0>> \o U32ToBe(range), 0)
get_detection_range == StartCommand("get_detection_range", 155, <<>>, 4)
reset == StartCommand("reset", 141, <<>>, 0)
get_analog_bounds == StartCommand("get_analog_bounds", 165, <<>>, 4)
get_firmware_version == StartCommand("get_firmware_version", 160, <<>>, 4)

----------------------------------------------------------------------------
(* send_packet *)

\* for-loops that stay on the same element after WouldBlock
NextIndex_Repoll(k, res) == IF res = "WouldBlock" THEN k ELSE k + 1

\* both for-loops: `continue` after Ok and `{}` after WouldBlock alike go on
\* to the next element of the buffer
NextIndex(k, res) == k + 1

\* reset that goes on to wait for an answer, as simple_command does
SendOnly_Never(o) == FALSE

\* reset returns what send_packet returned; every other operation goes
\* through command or simple_command
SendOnly(o) == o = "reset"

\* command that drops the result of send_packet and goes on to receive
Propagates_Never(r) == FALSE

\* the `?` after send_packet in command and simple_command: an error
\* is returned to the caller at once
Propagates(r) == r.tag = "Err"

\* what the operation does with the value send_packet returned
SendReturned(r) ==
    IF SendOnly(op) \/ Propagates(r) THEN Returns(r) ELSE Continue("recv_enter")

\* entry of send_packet: build the frame, sample the clock
send_packet_enter ==
    /\ pc = "send_enter"
    /\ buffer' = EncodeFrame(command, payload)
    /\ t0' = counter
    /\ dt' = Div10(frequency)
    /\ i' = 1
    /\ elapsed' = 0
    /\ written' = <<>>
    /\ tries' = 0
    /\ fillWB' = FALSE
    /\ pc' = "send"
    /\ UNCHANGED <<op, command, payload, rlen, attempt, response, result, serial,
                   counter, frequency, serial0, outcomes, lastCall, wbCount, at>>

\* one iteration of `for b in &buffer`
send_packet_poll ==
    /\ pc = "send"
    /\ UNCHANGED <<op, command, payload, rlen, buffer, t0, dt, response, serial,
                   counter, frequency, serial0, elapsed>>
    /\ IF TimedOut(counter, t0, dt)
       THEN /\ SendReturned(Err(Timeout))
            /\ UNCHANGED <<i, written, lastCall, wbCount, fillWB, tries>>
       ELSE \E a \in Answers :
            /\ lastCall' = Call("write", a)
            /\ tries' = tries + 1
            /\ IF a.res = "Other"
               THEN /\ SendReturned(Err(Serial(a.e)))
                    /\ UNCHANGED <<i, written, wbCount, fillWB>>
               ELSE /\ a.res = "WouldBlock" => wbCount < MaxWouldBlock
                    /\ wbCount' = IF a.res = "WouldBlock" THEN wbCount + 1 ELSE wbCount
                    /\ UNCHANGED fillWB
                    /\ written' = IF a.res = "Ok" THEN Append(written, buffer[i]) ELSE written
                    /\ i' = NextIndex(i, a.res)
                    /\ IF NextIndex(i, a.res) <= 9 THEN Continue("send")
                       ELSE SendReturned(Ok(<<>>))

----------------------------------------------------------------------------
(* receive_packet *)

\* receive_packet that takes the first byte it reads for the marker
IsMarker_AnyByte(b) == TRUE

\* receive_packet with the test for the marker inverted
IsMarker_Inverted(b) == b # 255

\* the test `b == 0xff` that ends the wait for the marker
IsMarker(b) == b = 255

\* receive_packet that starts a new deadline once the marker is in
FillDeadlineStart_Resampled(start, now) == now

\* the fill loop measures its deadline from the t0 sampled at the entry
\* of receive_packet
FillDeadlineStart(start, now) == start

\* receive_packet that copies the data bytes out before it checks the frame
CopyResponse_BeforeChecks(resp, buf, r, n) == SubSeq(buf, 3, 2 + n)

\* response.copy_from_slice is the last statement before Ok(()): reached
\* only when both checks have passed
CopyResponse(resp, buf, r, n) == IF r.tag = "Ok" THEN SubSeq(buf, 3, 2 + n) ELSE resp

\* entry of receive_packet: clear the buffer, sample the clock
receive_packet_enter ==
    /\ pc = "recv_enter"
    /\ buffer' = <<255>> \o Zeros(8)
    /\ t0' = counter
    /\ dt' = Div10(frequency)
    /\ i' = 1
    /\ elapsed' = 0
    /\ written' = <<>>
    /\ tries' = 0
    /\ fillWB' = FALSE
    /\ pc' = "scan"
    /\ UNCHANGED <<op, command, payload, rlen, attempt, response, result, serial,
                   counter, frequency, serial0, outcomes, lastCall, wbCount, at>>

\* one iteration of the `loop` that waits for 0xff
receive_packet_scan ==
    /\ pc = "scan"
    /\ UNCHANGED <<op, command, payload, rlen, buffer, dt, response, counter,
                   frequency, serial0, elapsed, written, tries>>
    /\ IF TimedOut(counter, t0, dt)
       THEN /\ Returns(Err(Timeout))
            /\ UNCHANGED <<i, t0, serial, lastCall, wbCount, fillWB>>
       ELSE \E a \in Answers :
            /\ a.res = "Ok" => serial # <<>>
            /\ lastCall' = Call("read", a)
            /\ CASE a.res = "Other" ->
                      /\ Returns(Err(Serial(a.e)))
                      /\ UNCHANGED <<i, t0, serial, wbCount, fillWB>>
                 [] a.res = "WouldBlock" ->
                      /\ wbCount' = IF wbCount < MaxWouldBlock THEN wbCount + 1 ELSE wbCount
                      /\ UNCHANGED fillWB
                      /\ Continue("scan")
                      /\ UNCHANGED <<i, t0, serial>>
                 [] a.res = "Ok" ->
                      /\ serial' = Tail(serial)
                      /\ UNCHANGED <<wbCount, fillWB>>
                      /\ IF IsMarker(Head(serial))
                         THEN /\ i' = 2
                              /\ t0' = FillDeadlineStart(t0, counter)
                              /\ Continue("fill")
                         ELSE /\ UNCHANGED <<i, t0>>
                              /\ Continue("scan")

\* one iteration of `for b in &mut buffer[1..]`; after the last one the
\* buffer is validated and receive_packet returns
receive_packet_fill ==
    /\ pc = "fill"
    /\ UNCHANGED <<op, command, payload, rlen, t0, dt, counter, frequency, serial0,
                   elapsed, written>>
    /\ IF TimedOut(counter, t0, dt)
       THEN /\ Returns(Err(Timeout))
            /\ UNCHANGED <<i, buffer, response, serial, lastCall, wbCount, fillWB, tries>>
       ELSE \E a \in Answers :
            /\ a.res = "Ok" => serial # <<>>
            /\ lastCall' = Call("read", a)
            /\ tries' = tries + 1
            /\ IF a.res = "Other"
               THEN /\ Returns(Err(Serial(a.e)))
                    /\ UNCHANGED <<i, buffer, response, serial, wbCount, fillWB>>
               ELSE LET buf == IF a.res = "Ok" THEN [buffer EXCEPT ![i] = Head(serial)]
                               ELSE buffer
                        r   == ValidateFrame(buf, command, rlen)
                    IN  /\ a.res = "WouldBlock" => wbCount < MaxWouldBlock
                        /\ wbCount' = IF a.res = "WouldBlock" THEN wbCount + 1 ELSE wbCount
                        /\ fillWB' = (fillWB \/ a.res = "WouldBlock")
                        /\ buffer' = buf
                        /\ serial' = IF a.res = "Ok" THEN Tail(serial) ELSE serial
                        /\ i' = NextIndex(i, a.res)
                        /\ IF NextIndex(i, a.res) <= 9
                           THEN Continue("fill") /\ UNCHANGED response
                           ELSE /\ response' = CopyResponse(response, buf, r, rlen)
                                /\ Returns(r)

----------------------------------------------------------------------------
(* The clock *)

\* the monotonic counter advances by one tick while a polling loop runs
Tick ==
    /\ pc \in {"send", "scan", "fill"}
    /\ elapsed < MaxElapsed
    /\ counter' = NextTick(counter)
    /\ elapsed' = elapsed + 1
    /\ UNCHANGED <<pc, op, command, payload, rlen, attempt, buffer, i, t0, dt, response,
                   result, serial, frequency, serial0, outcomes, written, lastCall,
                   wbCount, at, fillWB, tries>>

----------------------------------------------------------------------------

Next ==
    \/ probe
    \/ read_co2_concentration
    \/ set_automatic_baseline_correction
    \/ calibrate_zero_point
    \/ calibrate_span_point
    \/ set_detection_range
    \/ get_detection_range
    \/ reset
    \/ get_analog_bounds
    \/ get_firmware_version
    \/ send_packet_enter
    \/ send_packet_poll
    \/ receive_packet_enter
    \/ receive_packet_scan
    \/ receive_packet_fill
    \/ Tick

Spec == Init /\ [][Next]_vars

----------------------------------------------------------------------------
(* Properties of probe() *)

ProtocolFailures == {"Timeout", "WrongChecksum", "WrongPacketType"}

Last(s) == s[Len(s)]

\* the results of all exchanges of this call but the most recent one
Earlier == IF pc = "done" THEN SubSeq(outcomes, 1, Len(outcomes) - 1) ELSE outcomes

\* C1: in probe(), once a transport call has answered with an error e, probe()
\* has returned Err(e): the failing call is the last transport call of the
\* run and no further exchange is started.
C1_SerialErrorIsFatal ==
    (op = "probe" /\ lastCall.res = "Other") =>
        /\ pc = "done"
        /\ result = Err(Bare(lastCall.e))
        /\ Last(outcomes) = "Serial"
        /\ Len(outcomes) = attempt

\* C1 witness: the very first write of the first exchange fails
C1_Witness ==
    /\ op = "probe" /\ pc = "done"
    /\ attempt = 1 /\ written = <<>> /\ at = "send"
    /\ lastCall = Call("write", Other("E2"))
    /\ result = Err(Bare("E2"))

\* C2: without a Serial error, probe() answers Ok(true) exactly when its last
\* exchange succeeded and Ok(false) exactly when three exchanges failed with
\* protocol errors; a protocol failure of exchange 1 or 2 starts the next one.
C2_ProbeOutcomeMapping ==
    (op = "probe" /\ \A k \in 1 .. Len(outcomes) : outcomes[k] # "Serial") =>
        /\ \A k \in 1 .. Len(Earlier) : Earlier[k] \in ProtocolFailures
        /\ pc # "done" => Len(outcomes) = attempt - 1 /\ Len(outcomes) <= 2
        /\ pc = "done" =>
            /\ result \in {Ok(True), Ok(False)}
            /\ result = Ok(True) <=> Last(outcomes) = "Ok"
            /\ result = Ok(False) <=>
                   /\ Len(outcomes) = 3
                   /\ \A k \in 1 .. 3 : outcomes[k] \in ProtocolFailures

\* C2 witness: three protocol failures of different kinds end in Ok(false)
C2_Witness ==
    /\ op = "probe" /\ pc = "done"
    /\ outcomes = <<"WrongPacketType", "WrongChecksum", "Timeout">>
    /\ result = Ok(False)

\* C3: a probe() call runs between one and three exchanges, each of command
\* 0x86 with an empty payload, starts none after a success or a Serial error,
\* and returns Ok(true), Ok(false) or Err(e) for a transport error e.
C3_ProbeBounded ==
    op = "probe" =>
        /\ attempt \in 1 .. 3
        /\ Len(outcomes) \in (IF pc = "done" THEN 1 ELSE 0) .. 3
        /\ command = 134 /\ payload = <<>>
        /\ pc = "send" => buffer = <<255, 1, 134, 0, 0, 0, 0, 0, 121>>
        /\ \A k \in 1 .. Len(Earlier) : Earlier[k] \notin {"Ok", "Serial"}
        /\ pc = "done" =>
               result \in {Ok(True), Ok(False)} \cup {Err(Bare(e)) : e \in SerialErrors}

\* C3 witness: the third exchange ends the call with a transport error
C3_Witness ==
    /\ op = "probe" /\ pc = "done"
    /\ Len(outcomes) = 3
    /\ result = Err(Bare("E1"))

----------------------------------------------------------------------------
(* Properties of receive_packet on scripted input *)

\* no transport call of this call answered WouldBlock or an error, and no
\* deadline was reached
Undisturbed ==
    /\ wbCount = 0
    /\ \A k \in 1 .. Len(outcomes) : outcomes[k] \notin {"Serial", "Timeout"}

\* the driver is between two exchanges, or has returned
BetweenExchanges == pc \in {"send_enter", "send", "recv_enter", "done"}

\* C4: with two corrupted frames followed by a valid 0x86 frame on the wire and
\* an undisturbed transport and clock, the exchanges of probe() end
\* WrongChecksum, WrongChecksum, Ok, each consumes exactly one 9-byte frame,
\* and probe() returns Ok(true).
C4_TwoCorruptedThenValid ==
    (op = "probe" /\ serial0 \in TwoBadThenGood /\ Undisturbed) =>
        /\ outcomes = SubSeq(<<"WrongChecksum", "WrongChecksum", "Ok">>, 1, Len(outcomes))
        /\ BetweenExchanges =>
               serial = SubSeq(serial0, 9 * Len(outcomes) + 1, Len(serial0))
        /\ pc = "done" => result = Ok(True) /\ Len(outcomes) = 3 /\ serial = <<>>

\* C4 witness: the scenario ran to its end; the first corrupted frame holds 0xFF bytes
C4_Witness ==
    /\ op = "probe" /\ pc = "done" /\ Undisturbed
    /\ serial0 = BadSumFF \o BadSum \o Good
    /\ result = Ok(True)

\* position of the first 0xFF of a byte sequence that holds one
FirstMarker(s) == CHOOSE k \in 1 .. Len(s) : s[k] = 255 /\ \A j \in 1 .. k - 1 : s[j] # 255

\* the first exchange of the call has just returned from the validation of a buffer
FirstFrameValidated ==
    /\ pc \in {"done", "send_enter"}
    /\ Len(outcomes) = 1
    /\ at = "fill"
    /\ Undisturbed

\* C5 as claimed: from noise without 0xFF, then noise with a stray 0xFF, then
\* one well-formed frame for the expected command, receive_packet returns Ok
\* with that frame's payload.
C5_RecoversFinalFrame ==
    (FirstFrameValidated /\ command = 134 /\ serial0 = Noise \o Stray \o Good) =>
        /\ outcomes[1] = "Ok"
        /\ response = SubSeq(Good, 3, 2 + rlen)

\* C5 amended: receive_packet locks onto the first 0xFF it reads. The bytes
\* before it are discarded, the 8 bytes after it fill the buffer, and the
\* result is the validation of that buffer; the input after those 9 bytes is
\* left unread. With a stray 0xFF ahead of the frame the result is
\* WrongChecksum and the frame is not recovered.
C5_LocksOntoFirstMarker ==
    FirstFrameValidated =>
        LET m == FirstMarker(serial0)
            r == ValidateFrame(SubSeq(serial0, m, m + 8), command, rlen)
        IN  /\ \E k \in 1 .. Len(serial0) : serial0[k] = 255
            /\ m + 8 <= Len(serial0)
            /\ outcomes[1] = Outcome(r)
            /\ response = IF r.tag = "Ok" THEN r.val ELSE Zeros(rlen)
            /\ serial = SubSeq(serial0, m + 9, Len(serial0))
            /\ serial0 = Noise \o Stray \o Good => outcomes[1] = "WrongChecksum"

\* C5 witness: the stray marker was taken for the start of the frame
C5_Witness ==
    /\ FirstFrameValidated
    /\ op = "read_co2_concentration"
    /\ serial0 = Noise \o Stray \o Good
    /\ result = Err(WrongChecksum)
    /\ serial = SubSeq(Good, 8, 9)

----------------------------------------------------------------------------
(* Properties of the deadline *)

\* this step is a poll of the loop at position p: the clock is read, not advanced
PollAt(p) == pc = p /\ counter' = counter

\* this step returns Err(Timeout) from the exchange
ReturnsTimeout == outcomes' = Append(outcomes, "Timeout")

\* the ticks counted since t0 was sampled have reached dt
DeadlineReached == GeqU32(NatToU32(elapsed), dt)

\* C6: with dt > 0, a poll of the marker wait returns Err(Timeout) exactly
\* when the clock stands dt or more ticks past t0; a poll less than dt ticks
\* past t0 (dt - 1 included) never times out.
C6_TimeoutThreshold ==
    [][(PollAt("scan") /\ dt # <<0, 0>>) => (ReturnsTimeout <=> DeadlineReached)]_vars

\* C6 witness: a marker wait that polled the transport and timed out exactly
\* dt = 2 ticks after its entry
C6_Witness ==
    /\ pc = "done" /\ at = "scan"
    /\ outcomes = <<"Timeout">>
    /\ lastCall.kind = "read"
    /\ dt = <<0, 2>> /\ elapsed = 2

\* the counter has wrapped past 2^32 since t0 was sampled
Wrapped == ~GeqU32(counter, t0)

\* C7: when the counter has wrapped since t0 was sampled, a poll of send_packet
\* or receive_packet times out exactly when the true number of ticks since t0
\* has reached dt, as it would without the wrap.
C7_WrapAround ==
    [][((PollAt("send") \/ PollAt("scan") \/ PollAt("fill")) /\ Wrapped)
          => (ReturnsTimeout <=> DeadlineReached)]_vars

\* C7 witness: a timeout detected across the wrap, t0 = 2^32 - 2 and counter = 0
C7_Witness ==
    /\ outcomes # <<>> /\ Last(outcomes) = "Timeout"
    /\ t0 = <<Limb - 1, Limb - 2>> /\ counter = <<0, 0>>
    /\ dt = <<0, 2>> /\ elapsed = 2

----------------------------------------------------------------------------
(* The packet codec on its own: frames are built as send_packet builds them
   and buffers are validated as receive_packet validates them, for commands,
   payloads and buffers drawn from the sets below. *)

MaxPayload == 5     \* assert!(payload.len() <= 5)
MaxResponse == 6    \* assert!(response.len() <= 6)

\* command bytes and payload bytes the codec is exercised with
CodecCommands == {0, 1, 121, 134, 255}
CodecBytes == {0, 1, 134, 255}
DataBytes == {0, 255}

\* sequences over S of length n, and of length up to n
SeqsOfLen(S, n) == [1 .. n -> S]
SeqsUpTo(S, n) == UNION {SeqsOfLen(S, k) : k \in 0 .. n}

InitCodec ==
    /\ pc = "codec"
    /\ op = "-"
    /\ command = 0
    /\ payload = <<>>
    /\ rlen = 0
    /\ attempt = 0
    /\ buffer = Zeros(9)
    /\ i = 0
    /\ t0 = <<0, 0>>
    /\ dt = <<0, 0>>
    /\ response = <<>>
    /\ result = None
    /\ serial = <<>>
    /\ counter \in Starts
    /\ frequency \in Frequencies
    /\ serial0 = <<>>
    /\ elapsed = 0
    /\ outcomes = <<>>
    /\ written = <<>>
    /\ lastCall = NoCall
    /\ wbCount = 0
    /\ at = "-"
    /\ fillWB = FALSE
    /\ tries = 0

CodecFrame == <<attempt, i, t0, dt, result, serial, counter, frequency, serial0, elapsed,
                outcomes, written, lastCall, wbCount, at, fillWB, tries>>

\* send_packet builds the frame of (cmd, pl); the frame is then handed back
\* to the receiver, which expects cmd and a response as long as pl
codec_encode ==
    /\ pc = "codec"
    /\ \E cmd \in CodecCommands, pl \in SeqsUpTo(CodecBytes, MaxPayload) :
        /\ command' = cmd
        /\ payload' = pl
        /\ rlen' = Len(pl)
        /\ response' = Zeros(Len(pl))
        /\ buffer' = EncodeFrame(cmd, pl)
    /\ op' = "loopback"
    /\ pc' = "filled"
    /\ UNCHANGED CodecFrame

\* receive_packet has filled its buffer from the wire: marker, any type byte,
\* any data, and a last byte that does or does not make the checksum right
codec_receive ==
    /\ pc = "codec"
    /\ \E cmd \in CodecCommands, type \in CodecCommands,
          data \in SeqsOfLen(DataBytes, 6), last \in {0, 1}, n \in 0 .. MaxResponse :
        LET frame == ResponseFrame(type, data)
        IN  /\ command' = cmd
            /\ rlen' = n
            /\ response' = Zeros(n)
            /\ buffer' = [frame EXCEPT ![9] = (frame[9] + last) % 256]
    /\ op' = "receive"
    /\ pc' = "filled"
    /\ UNCHANGED <<payload>>
    /\ UNCHANGED CodecFrame

\* receive_packet validates the filled buffer and copies the response out
codec_validate ==
    /\ pc = "filled"
    /\ LET r == ValidateFrame(buffer, command, rlen)
       IN  /\ result' = r
           /\ response' = CopyResponse(response, buffer, r, rlen)
    /\ pc' = "validated"
    /\ UNCHANGED <<op, command, payload, rlen, attempt, buffer, i, t0, dt, serial, counter,
                   frequency, serial0, elapsed, outcomes, written, lastCall, wbCount, at,
                   fillWB, tries>>

NextCodec ==
    \/ codec_encode
    \/ codec_receive
    \/ codec_validate

SpecCodec == InitCodec /\ [][NextCodec]_vars

----------------------------------------------------------------------------
(* Properties of the codec *)

\* the sum of the bytes of a buffer modulo 256, written out
Sum8(b) == (b[1] + b[2] + b[3] + b[4] + b[5] + b[6] + b[7] + b[8]) % 256
Sum9(b) == (Sum8(b) + b[9]) % 256

\* a frame built by send_packet has gone through the receiver's validation
LoopedBack == pc = "validated" /\ op = "loopback"

\* C8 as claimed: validating the frame send_packet builds for (command,
\* payload), with the same expected command and a response as long as the
\* payload, returns Ok with that payload.
C8_RoundTrip ==
    LoopedBack => result = Ok(payload) /\ response = payload

\* C8 amended: byte 1 of a frame built by send_packet is the fixed address
\* 0x01, not the command, and the response is copied from offset 2, where a
\* request holds its command byte. So the frame passes the checksum test, is
\* rejected with WrongPacketType unless the command is 0x01, and for command
\* 0x01 yields the first n bytes of <<command>> \o payload, not the payload.
C8_RequestFrameDecoded ==
    LoopedBack =>
        /\ result # Err(WrongChecksum)
        /\ command # 1 => result = Err(WrongPacketType) /\ response = Zeros(rlen)
        /\ command = 1 =>
               /\ result = Ok(SubSeq(<<command>> \o payload, 1, rlen))
               /\ response = result.val
        /\ result = Ok(payload) <=>
               command = 1 /\ \A k \in 1 .. Len(payload) : payload[k] = 1

\* C8 witness: a request for command 0x01 decoded to the command byte and the
\* head of its payload
C8_Witness ==
    /\ LoopedBack
    /\ command = 1 /\ payload = <<134, 255, 0>>
    /\ result = Ok(<<1, 134, 255>>)

\* C9: the frame built for (command, payload) is 0xFF, 0x01, the command, the
\* payload zero-padded to 5 bytes and the complement of the wrapping sum of
\* these 8 bytes; all 9 bytes sum to 0xFF and checksum() of the frame is 0.
C9_FrameLayout ==
    (pc = "filled" /\ op = "loopback") =>
        /\ Len(buffer) = 9
        /\ buffer[1] = 255 /\ buffer[2] = 1 /\ buffer[3] = command
        /\ \A k \in 1 .. MaxPayload :
               buffer[3 + k] = IF k <= Len(payload) THEN payload[k] ELSE 0
        /\ buffer[9] = 255 - Sum8(buffer)
        /\ Sum9(buffer) = 255
        /\ checksum(buffer) = 0

\* C9 witness: a frame with a full payload whose byte sum wraps
C9_Witness ==
    /\ pc = "filled" /\ op = "loopback"
    /\ command = 134 /\ payload = <<255, 134, 1, 0, 255>>
    /\ buffer[9] = 255 - ((255 + 1 + 134 + 255 + 134 + 1 + 0 + 255) % 256)

\* C10: a filled buffer whose bytes do not sum to 0xFF gives WrongChecksum
\* whatever its type byte; one that does, with a type byte other than the
\* expected command, gives WrongPacketType; any other gives Ok with the
\* response made of the rlen bytes from offset 2. The response is written on
\* Ok only.
C10_ValidationOrder ==
    pc = "validated" =>
        /\ Sum9(buffer) # 255 => result = Err(WrongChecksum)
        /\ (Sum9(buffer) = 255 /\ buffer[2] # command) => result = Err(WrongPacketType)
        /\ (Sum9(buffer) = 255 /\ buffer[2] = command) =>
               /\ result.tag = "Ok"
               /\ Len(result.val) = rlen
               /\ \A k \in 1 .. rlen : result.val[k] = buffer[2 + k]
               /\ response = result.val
        /\ result.tag = "Err" => response = Zeros(rlen)

\* C10 witness: a buffer with a wrong checksum and a wrong type byte was
\* rejected for its checksum
C10_Witness ==
    /\ pc = "validated" /\ op = "receive"
    /\ Sum9(buffer) # 255 /\ buffer[2] # command
    /\ result = Err(WrongChecksum)

----------------------------------------------------------------------------
(* Properties of an exchange as a whole *)

\* the operation ended in a receive_packet that returned Ok
ReceivedOk == pc = "done" /\ at = "fill" /\ Last(outcomes) = "Ok"

\* C11: the caller's response buffer keeps the contents it had when the
\* operation was entered (zeros) for as long as receive_packet has not
\* returned Ok, whatever error ends the call; once receive_packet has returned
\* Ok it holds all rlen data bytes of the validated frame.
C11_NoPartialResponse ==
    op # "-" =>
        IF ReceivedOk THEN response = SubSeq(buffer, 3, 2 + rlen)
        ELSE response = Zeros(rlen)

\* C11 witness: read_co2_concentration received a whole frame with data bytes
\* 2, 88 and a wrong checksum, and returned the error with the response
\* buffer still zero
C11_Witness ==
    /\ op = "read_co2_concentration" /\ pc = "done"
    /\ result = Err(WrongChecksum)
    /\ SubSeq(buffer, 3, 4) = <<2, 88>>
    /\ response = <<0, 0>>

----------------------------------------------------------------------------
(* Termination *)

\* one more byte that is not the marker arrives on the line while
\* receive_packet waits for the marker
noise_arrives ==
    /\ pc = "scan"
    /\ serial = <<>>
    /\ serial' = <<Noise[1]>>
    /\ UNCHANGED <<pc, op, command, payload, rlen, attempt, buffer, i, t0, dt, response,
                   result, counter, frequency, serial0, elapsed, outcomes, written,
                   lastCall, wbCount, at, fillWB, tries>>

\* the inputs of the termination runs: a silent line, and a frame that stops
\* after its fourth byte
LiveStreams == {<<>>, Truncated}

InitLive == Init /\ serial \in LiveStreams

NextLive ==
    \/ Next
    \/ noise_arrives

\* a step of the driver's code
DriverStep ==
    \/ send_packet_enter
    \/ send_packet_poll
    \/ receive_packet_enter
    \/ receive_packet_scan
    \/ receive_packet_fill

\* the clock keeps advancing, and the driver, which runs its loops without
\* yielding, keeps executing; the transport is never obliged to answer with
\* an error
SpecLive ==
    /\ InitLive
    /\ [][NextLive]_vars
    /\ WF_vars(Tick)
    /\ WF_vars(DriverStep /\ lastCall'.res # "Other")

\* C12: with the clock advancing, every call that has been entered returns,
\* also when the transport answers WouldBlock for ever or delivers bytes
\* other than 0xFF without end.
C12_Terminates == (pc # "idle") ~> (pc = "done")

\* C12 witness: the transport answered WouldBlock to the reads of the marker
\* wait until the deadline, and the call returned Err(Timeout) from there
C12_Witness ==
    /\ pc = "done" /\ at = "scan"
    /\ Last(outcomes) = "Timeout"
    /\ lastCall.kind = "read" /\ lastCall.res = "WouldBlock"
    /\ dt = <<0, 2>> /\ elapsed = 2

----------------------------------------------------------------------------
(* Properties of reset() and of the order of send and receive *)

\* C13: reset() only sends: it puts the frame of command 0x8D with an empty
\* payload on the line and returns what send_packet returned (Ok(()) after
\* the last byte, else the Timeout or Serial error of the send); it makes no
\* read, so input that was pending stays in the transport.
C13_ResetOnlySends ==
    op = "reset" =>
        /\ command = 141 /\ payload = <<>>
        /\ pc \in {"send_enter", "send", "done"}
        /\ lastCall.kind # "read"
        /\ serial = serial0
        /\ pc # "send_enter" => buffer = <<255, 1, 141, 0, 0, 0, 0, 0, 114>>
        /\ pc = "done" =>
              /\ at = "send" /\ Len(outcomes) = 1
              /\ result = IF lastCall.res = "Other" THEN Err(Serial(lastCall.e))
                          ELSE IF i = 10 THEN Ok(<<>>)
                          ELSE Err(Timeout)

\* C13 witness: reset() wrote its nine bytes and returned Ok(()) with a whole
\* frame still waiting in the transport
C13_Witness ==
    /\ op = "reset" /\ pc = "done"
    /\ result = Ok(<<>>)
    /\ written = <<255, 1, 141, 0, 0, 0, 0, 0, 114>>
    /\ serial = Good

\* C18: an exchange sends before it receives: while send_packet runs no read
\* is made, receive_packet is entered only after all nine write attempts of
\* send_packet, none of which failed, and a send that fails with Timeout or
\* with a transport error ends the exchange with that error, without a read
\* and without a second send.
C18_SendThenReceive ==
    /\ pc = "send" => (tries = 0 \/ lastCall.kind = "write")
    /\ (pc \in {"send_enter", "send"} /\ outcomes = <<>>) =>
           (lastCall.kind # "read" /\ serial = serial0)
    /\ pc = "recv_enter" =>
           /\ i = 10 /\ tries = 9
           /\ lastCall.kind = "write" /\ lastCall.res # "Other"
    /\ (pc \in {"done", "send_enter"} /\ outcomes # <<>> /\ at = "send" /\ op # "reset") =>
           /\ Last(outcomes) \in {"Timeout", "Serial"}
           /\ Last(outcomes) = "Serial" => (lastCall.kind = "write" /\ lastCall.res = "Other")
           /\ op # "probe" =>
                 /\ pc = "done" /\ Len(outcomes) = 1
                 /\ lastCall.kind # "read" /\ serial = serial0
                 /\ result = IF lastCall.res = "Other" THEN Err(Serial(lastCall.e))
                             ELSE Err(Timeout)

\* C18 witness: the third write of read_co2_concentration failed; the call
\* returned that error with the answer of the sensor left unread
C18_Witness ==
    /\ op = "read_co2_concentration" /\ pc = "done" /\ at = "send"
    /\ result = Err(Serial("E1"))
    /\ written = <<255, 1>>
    /\ serial = Good /\ serial0 = Good

----------------------------------------------------------------------------
(* Properties of the two for-loops under WouldBlock *)

\* send_packet has returned Ok(()) to its caller
SendReturnedOk ==
    \/ pc = "recv_enter"
    \/ op = "reset" /\ pc = "done" /\ result = Ok(<<>>)

\* C14 as claimed: a write that answers WouldBlock is repeated for the same
\* byte, so that whenever send_packet has returned Ok(()) the bytes the
\* transport accepted are the nine bytes of the frame, in order.
C14_AcceptedWholeFrame == SendReturnedOk => written = buffer


\* the first receive_packet of the call has validated its buffer, and the
\* line held at least 8 bytes after the first marker
FirstBufferValidated ==
    /\ pc \in {"done", "send_enter"}
    /\ Len(outcomes) = 1
    /\ at = "fill"
    /\ outcomes[1] \in {"Ok", "WrongChecksum", "WrongPacketType"}
    /\ \E k \in 1 .. Len(serial0) : serial0[k] = 255
    /\ Len(serial0) >= FirstMarker(serial0) + 8

\* C15 as claimed: a read of the fill loop that answers WouldBlock is repeated
\* for the same position, so that the buffer that is validated is 0xFF
\* followed by the 8 bytes that followed the marker on the line.
C15_BufferIsNextEight ==
    FirstBufferValidated =>
        buffer = SubSeq(serial0, FirstMarker(serial0), FirstMarker(serial0) + 8)

----------------------------------------------------------------------------
(* Properties of the wait for the marker *)

\* bytes other than 0xFF followed by exactly one well-formed frame
NoiseThenFrame(s) ==
    /\ \E k \in 1 .. Len(s) : s[k] = 255
    /\ Len(s) = FirstMarker(s) + 8
    /\ SubSeq(s, FirstMarker(s), Len(s)) = Good

\* the number of bytes taken from the transport so far
Consumed == Len(serial0) - Len(serial)

\* C16: the wait for the marker discards every byte ahead of the first 0xFF,
\* WouldBlock answers in between included, and leaves the driver's buffer as
\* it was; with bytes other than 0xFF followed by one valid 0x86 frame on the
\* line, no WouldBlock in the fill loop, no transport error and no deadline
\* reached, the exchange returns Ok with the data of that frame.
C16_ScanDiscardsNoise ==
    /\ (pc = "scan" /\ outcomes = <<>>) =>
           /\ buffer = <<255>> \o Zeros(8)
           /\ \A k \in 1 .. Consumed : serial0[k] # 255
    /\ ( /\ pc \in {"done", "send_enter"} /\ Len(outcomes) = 1
         /\ outcomes[1] \notin {"Timeout", "Serial"}
         /\ command = 134 /\ NoiseThenFrame(serial0)
         /\ ~fillWB ) =>
           /\ outcomes = <<"Ok">>
           /\ pc = "done"
           /\ buffer = Good
           /\ serial = <<>>
           /\ response = SubSeq(Good, 3, 2 + rlen)
           /\ result = IF op = "probe" THEN Ok(True) ELSE Ok(<<600>>)

\* C16 witness: read_co2_concentration met two bytes of chatter ahead of the
\* frame and a WouldBlock outside the fill loop, and returned the 600 ppm of
\* the frame
C16_Witness ==
    /\ op = "read_co2_concentration" /\ pc = "done"
    /\ serial0 = Noise \o Good
    /\ wbCount = MaxWouldBlock /\ ~fillWB
    /\ result = Ok(<<600>>)

----------------------------------------------------------------------------
(* Properties of the deadline *)

\* the clock has fewer than 10 ticks per second
SlowClock == frequency[1] = 0 /\ frequency[2] < 10

\* C17 as claimed: with a clock frequency below 10, dt is 0 and the timeout is
\* switched off, so that neither send_packet nor receive_packet ever returns
\* Err(Timeout).
C17_TimeoutDisabled ==
    SlowClock => \A k \in 1 .. Len(outcomes) : outcomes[k] # "Timeout"

\* C17: with a clock frequency below 10, dt is 0 and the test
\* (now - t0) >= dt holds at the first poll of send_packet: every exchange
\* returns Err(Timeout) from there before any transport call, so the typed
\* operations return Err(Timeout) and probe() returns Ok(false) after three
\* exchanges.
C17_ZeroDeadlineTimesOutAtOnce ==
    (SlowClock /\ op # "-") =>
        /\ pc \in {"send_enter", "send", "done"}
        /\ pc # "send_enter" => dt = <<0, 0>>
        /\ lastCall = NoCall /\ written = <<>> /\ serial = serial0
        /\ \A k \in 1 .. Len(outcomes) : outcomes[k] = "Timeout"
        /\ pc = "done" =>
              /\ at = "send" /\ i = 1
              /\ result = IF op = "probe" THEN Ok(False) ELSE Err(Timeout)
              /\ Len(outcomes) = IF op = "probe" THEN 3 ELSE 1

\* C17 witness: read_co2_concentration with a clock of 9 ticks per second
\* came back with Err(Timeout) without a tick of the clock and without a
\* call of the transport
C17_Witness ==
    /\ op = "read_co2_concentration" /\ pc = "done"
    /\ frequency = <<0, 9>> /\ dt = <<0, 0>>
    /\ elapsed = 0 /\ lastCall = NoCall
    /\ result = Err(Timeout)


\* C19: the two loops of receive_packet run against one deadline: t0 and dt
\* stay as sampled at entry through marker, reads and WouldBlock answers;
\* every poll of either loop tests the deadline first and returns
\* Err(Timeout) exactly when the ticks since entry have reached dt, and such
\* a poll makes no read.
C19_SharedDeadline ==
    [][ /\ (pc \in {"scan", "fill"} /\ pc' \in {"scan", "fill"}) => (t0' = t0 /\ dt' = dt)
        /\ (PollAt("scan") \/ PollAt("fill")) =>
               /\ ReturnsTimeout <=> DeadlineReached
               /\ DeadlineReached => (serial' = serial /\ lastCall' = lastCall)
      ]_vars

\* C19 witness: the marker was read one tick before the deadline, the clock
\* moved on, and the first poll of the fill loop returned Err(Timeout)
\* without a read
C19_Witness ==
    /\ pc = "done" /\ at = "fill"
    /\ Last(outcomes) = "Timeout"
    /\ i = 2 /\ tries = 0
    /\ lastCall.kind = "read" /\ lastCall.res = "Ok"
    /\ dt = <<0, 2>> /\ elapsed = 2


\* C20: a call of send_packet makes at most 9 write attempts and the fill
\* loop of receive_packet at most 8 read attempts, one per element of the
\* buffer, whatever the transport answers and the clock reads; the reads of
\* the marker wait are not counted in either.
C20_BoundedLoops ==
    /\ tries <= 9
    /\ (pc = "fill" \/ (pc \in {"done", "send_enter"} /\ at = "fill")) => tries <= 8
    /\ pc \in {"send", "recv_enter"} => tries = i - 1
    /\ pc = "fill" => tries = i - 2
    /\ pc = "scan" => tries = 0

\* C20 witness: send_packet is through its loop after nine write attempts of
\* which one answered WouldBlock
C20_Witness ==
    /\ pc = "recv_enter"
    /\ tries = 9 /\ Len(written) = 8
    /\ wbCount = 1

====
